---- MODULE Spec2Model ----
(***************************************************************************)
(* The CalDAV synchronization core of vibecal: the calendar object store   *)
(* (CalDAVService), the calendar_objects_sync_trigger of database.sql that *)
(* rotates calendars.sync_token and appends to sync_changes, and the       *)
(* sync-report and administrative handlers that read and purge that log.   *)
(*                                                                         *)
(* Every db.query() is one autocommit PostgreSQL statement.  A statement   *)
(* that writes calendar_objects runs its AFTER ROW trigger inside its own  *)
(* transaction; the trigger's UPDATE of the calendars row takes that row's *)
(* lock, so writers of one calendar commit one after the other, and the    *)
(* effect of a statement is what it does to the committed state at its     *)
(* commit.  CURRENT_TIMESTAMP is the START time of the transaction, so a   *)
(* statement is modelled by two steps: Begin (the clock is read) and the   *)
(* commit step (the effect).                                               *)
(***************************************************************************)
EXTENDS Integers, Sequences, FiniteSets, TLC

\* Bounds of the model.
MaxTime == 3        \* statements that may start (one clock tick each)
MaxSeq == 2         \* largest SEQUENCE a request document carries
MaxUuid == 6        \* largest UUID a lock, property or calendar request may draw

Users == {1, 2}
Writers == {"w1", "w2"}
ClientUids == {"e1"}
NoUid == "-"        \* a VEVENT without UID

VARIABLES
  calendars,      \* table calendars: id -> row
  calendar_objects, \* table calendar_objects: id -> row
  sync_changes,   \* table sync_changes: set of rows
  now,            \* the clock: the timestamp the next statement starts at
  nextUuid,       \* uuidv4() / gen_random_uuid(): the next unused value
  tx,             \* tx[w]: CURRENT_TIMESTAMP of w's open statement, 0 if none
  force,          \* the administrative force-sync request in progress
  report,         \* the sync-report request in progress, and its response
  last,           \* the last completed object or calendar request: its outcome,
                  \* and the cause of the error the service logged and rethrew
  mutations,      \* history: committed object mutations, in commit order
  webdav_locks,   \* table webdav_locks: set of rows
  webdav_properties, \* table webdav_properties: set of rows
  view            \* the last completed read request and what it returned

vars == <<calendars, calendar_objects, sync_changes, now, nextUuid, tx, force, report,
          last, mutations, webdav_locks, webdav_properties, view>>

\* the WebDAV tables and the read response, which the object store leaves alone
Dav == <<webdav_locks, webdav_properties, view>>

\* Request documents: what parse() extracts from the iCalendar text.
\* (status is the VEVENT's STATUS, NoStatus when it has none; start and end are
\* its DTSTART and DTEND as clock values, NoTime when it has none)
NoStatus == ""
NoTime == 0

NoDoc ==
  [hasEvent |-> FALSE, uid |-> NoUid, hasSequence |-> FALSE, sequence |-> 0,
   status |-> NoStatus, start |-> NoTime, end |-> NoTime]

Docs ==
  {NoDoc} \cup
  {[hasEvent |-> TRUE, uid |-> u, hasSequence |-> FALSE, sequence |-> 0,
    status |-> NoStatus, start |-> NoTime, end |-> NoTime] :
      u \in ClientUids \cup {NoUid}} \cup
  {[hasEvent |-> TRUE, uid |-> u, hasSequence |-> TRUE, sequence |-> s,
    status |-> NoStatus, start |-> NoTime, end |-> NoTime] :
      u \in ClientUids \cup {NoUid}, s \in 1..MaxSeq}

\* uuidv4() used as a UID string
UuidText(n) == "uuid-" \o ToString(n)

\* CalDAVService.parseICalendarData.  parse() is the imported iCalendar parser;
\* it is taken to return what the service reads from it: components with a
\* type, a uid, a sequence.  The parser throwing and no VEVENT being found end
\* the same way ("Invalid iCalendar data").
ParseOk(d) == d.hasEvent

\* the fields the service takes from the first VEVENT; u is the value uuidv4()
\* returns when the event has no uid

parseICalendarData(d, u) ==
  [uid |-> IF d.uid = NoUid THEN UuidText(u) ELSE d.uid,
   sequence |-> IF d.hasSequence THEN d.sequence ELSE 0,
   componentType |-> "VEVENT",
   status |-> IF d.status = NoStatus THEN "CONFIRMED" ELSE d.status,
   dtstart |-> d.start,
   dtend |-> d.end]

\* CalDAVService.getCalendar: the row, for its owner only.  The service runs
\* this SELECT before its write; no request changes a calendar's user_id, so
\* the check is evaluated with the write.
getCalendarOk(cal, user) ==
  cal \in DOMAIN calendars /\ calendars[cal].user_id = user

\* a mutant of the uniqueness check: the table has no UNIQUE(calendar_id, uid)
UidTaken_never(cal, uid, self) == FALSE

\* UNIQUE(calendar_id, uid): would a row (cal, uid) other than `self` collide
UidTaken(cal, uid, self) ==
  \E o \in DOMAIN calendar_objects :
     o # self /\ calendar_objects[o].calendar_id = cal /\ calendar_objects[o].uid = uid

\* a mutant of generate_sync_token: the token is rotated, the change is not logged
generate_sync_token_nolog(cal, obj, change, etag, ts, tok) ==
  [calendars |-> [calendars EXCEPT ![cal].sync_token = tok],
   sync_changes |-> sync_changes]

\* a mutant of generate_sync_token: the calendar keeps only its latest change
generate_sync_token_latest(cal, obj, change, etag, ts, tok) ==
  [calendars |-> [calendars EXCEPT ![cal].sync_token = tok],
   sync_changes |-> {r \in sync_changes : r.calendar_id # cal} \cup
      {[calendar_id |-> cal, object_id |-> obj, change_type |-> change,
        sync_token |-> tok, etag |-> etag, created_at |-> ts]}]

\* trigger calendar_objects_sync_trigger: the new calendars and sync_changes
generate_sync_token(cal, obj, change, etag, ts, tok) ==
  [calendars |-> [calendars EXCEPT ![cal].sync_token = tok],
   sync_changes |-> sync_changes \cup
      {[calendar_id |-> cal, object_id |-> obj, change_type |-> change,
        sync_token |-> tok, etag |-> etag, created_at |-> ts]}]

\* What a request came to: status "ok", or "error" (every failure reaches the
\* caller as the same rethrown Error, HTTP 500) with the cause that was logged.
Response(op, status, error) == [op |-> op, status |-> status, error |-> error]

\* A history record: one committed rotation of a calendar's sync_token, with the
\* If-Match the request carried.
Mutation(cal, obj, change, etag, tok, ifMatch) ==
  [calendar_id |-> cal, object_id |-> obj, change_type |-> change, etag |-> etag,
   prev_token |-> calendars[cal].sync_token, sync_token |-> tok, if_match |-> ifMatch]

\* ETags an object has had (what a client may hold in If-Match)
EtagsOf(obj) ==
  {mutations[i].etag : i \in {j \in 1..Len(mutations) : mutations[j].object_id = obj}}

\* ORDER BY created_at ASC
RECURSIVE OrderByCreatedAt(_)
OrderByCreatedAt(rows) ==
  IF rows = {} THEN <<>>
  ELSE LET first == CHOOSE r \in rows : \A q \in rows : r.created_at <= q.created_at
       IN <<first>> \o OrderByCreatedAt(rows \ {first})

\* a mutant of the query: without the condition sc.calendar_id = $1
ChangesSince_any(changes, cal, tok) ==
  LET at == {r \in changes : r.sync_token = tok}
  IN IF at = {} THEN <<>>
     ELSE OrderByCreatedAt({r \in changes : \E a \in at : r.created_at > a.created_at})

\* the query of CalDAVService.getChangesSince over the table `changes`: the rows
\* of the calendar created after the row that carries the token (the columns
\* the LEFT JOIN adds from calendar_objects are left out).  With no such
\* row the subquery is NULL, the comparison is NULL, and no row is selected.
\* (sync tokens are UUIDs: at most one row carries a given token)
ChangesSince(changes, cal, tok) ==
  LET at == {r \in changes : r.sync_token = tok}
  IN IF at = {} THEN <<>>
     ELSE OrderByCreatedAt({r \in changes : /\ r.calendar_id = cal
                                            /\ \E a \in at : r.created_at > a.created_at})

\* CalDAVService.getChangesSince
getChangesSince(cal, tok) == ChangesSince(sync_changes, cal, tok)

NoReport ==
  [pc |-> "idle", cal |-> 0, syncToken |-> 0, status |-> "none", changes |-> <<>>,
   newSyncToken |-> 0]

\* no read request has completed
NoView == [op |-> "none", key |-> 0, user |-> 0, status |-> "none", rows |-> {}]

Init ==
  /\ calendars = (1 :> [user_id |-> 1, name |-> "default", is_default |-> TRUE,
                        is_public |-> FALSE, sync_token |-> 2])
  /\ calendar_objects = <<>>
  /\ sync_changes = {}
  /\ now = 1
  /\ nextUuid = 3
  /\ tx = [w \in Writers |-> 0]
  /\ force = [pc |-> "idle", cal |-> 0, sync_token |-> 0]
  /\ report = NoReport
  /\ last = Response("none", "none", "none")
  /\ mutations = <<>>
  /\ webdav_locks = {}
  /\ webdav_properties = {}
  /\ view = NoView

\* A statement starts: the transaction reads the clock.
Begin(w) ==
  /\ tx[w] = 0
  /\ now <= MaxTime
  /\ tx' = [tx EXCEPT ![w] = now]
  /\ now' = now + 1
  /\ UNCHANGED <<calendars, calendar_objects, sync_changes, nextUuid, force, report,
                 last, mutations, Dav>>

Fail(w, op, error) ==
  /\ last' = Response(op, "error", error)
  /\ tx' = [tx EXCEPT ![w] = 0]
  /\ UNCHANGED <<calendars, calendar_objects, sync_changes, now, nextUuid, force, report,
                 mutations, Dav>>

\* CalDAVService.createCalendarObject
CreateObject(w, user, cal, d) ==
  /\ tx[w] # 0
  /\ LET id == nextUuid
         etag == nextUuid + 1
         tok == nextUuid + 2
         parsed == parseICalendarData(d, nextUuid + 3)
         trig == generate_sync_token(cal, id, "create", etag, tx[w], tok)
     IN IF ~getCalendarOk(cal, user) THEN Fail(w, "create", "access")
        ELSE IF ~ParseOk(d) THEN Fail(w, "create", "parse")
        ELSE IF UidTaken(cal, parsed.uid, id) THEN Fail(w, "create", "unique")
        ELSE /\ calendar_objects' = (id :> [calendar_id |-> cal, uid |-> parsed.uid,
                                       etag |-> etag, icalendar_data |-> d,
                                       component_type |-> parsed.componentType,
                                       dtstart |-> parsed.dtstart,
                                       dtend |-> parsed.dtend,
                                       sequence |-> parsed.sequence,
                                       status |-> parsed.status])
                                    @@ calendar_objects
             /\ calendars' = trig.calendars
             /\ sync_changes' = trig.sync_changes
             /\ nextUuid' = nextUuid + 4
             /\ mutations' = Append(mutations,
                                     Mutation(cal, id, "create", etag, tok, 0))
             /\ last' = Response("create", "ok", "none")
             /\ tx' = [tx EXCEPT ![w] = 0]
             /\ UNCHANGED <<now, force, report, Dav>>

\* a mutant of the update: the row keeps its ETag (no uuidv4() call)
NewEtag_stale(obj, fresh) == calendar_objects[obj].etag

\* updateCalendarObject, caldavService.ts line 289: etag = uuidv4()
NewEtag(obj, fresh) == fresh

\* CalDAVService.updateCalendarObject; ifMatch is the request's If-Match header
\* (0 when absent), which neither the controller nor the service reads
UpdateObject(w, user, cal, obj, d, ifMatch) ==
  /\ tx[w] # 0
  /\ LET etag == IF obj \in DOMAIN calendar_objects THEN NewEtag(obj, nextUuid) ELSE nextUuid
         tok == nextUuid + 1
         parsed == parseICalendarData(d, nextUuid + 2)
         found == obj \in DOMAIN calendar_objects /\ calendar_objects[obj].calendar_id = cal
         trig == generate_sync_token(cal, obj, "update", etag, tx[w], tok)
     IN IF ~getCalendarOk(cal, user) THEN Fail(w, "update", "access")
        ELSE IF ~ParseOk(d) THEN Fail(w, "update", "parse")
        ELSE IF ~found THEN Fail(w, "update", "notfound")
        ELSE IF UidTaken(cal, parsed.uid, obj) THEN Fail(w, "update", "unique")
        ELSE /\ calendar_objects' = [calendar_objects EXCEPT ![obj] =
                                       [calendar_id |-> cal, uid |-> parsed.uid,
                                        etag |-> etag, icalendar_data |-> d,
                                        component_type |-> parsed.componentType,
                                        dtstart |-> parsed.dtstart,
                                        dtend |-> parsed.dtend,
                                        sequence |-> parsed.sequence,
                                        status |-> parsed.status]]
             /\ calendars' = trig.calendars
             /\ sync_changes' = trig.sync_changes
             /\ nextUuid' = nextUuid + 3
             /\ mutations' = Append(mutations,
                                     Mutation(cal, obj, "update", etag, tok, ifMatch))
             /\ last' = Response("update", "ok", "none")
             /\ tx' = [tx EXCEPT ![w] = 0]
             /\ UNCHANGED <<now, force, report, Dav>>

\* CalDAVService.deleteCalendarObject.  The DELETE fires the AFTER DELETE row
\* trigger, whose INSERT INTO sync_changes carries object_id = OLD.id, the row
\* just deleted: sync_changes.object_id REFERENCES calendar_objects(id), so the
\* INSERT raises a foreign-key violation and the whole statement is rolled
\* back.  A missing row gives rowCount = 0.  Either way the service throws.
DeleteObject(w, user, cal, obj, ifMatch) ==
  /\ tx[w] # 0
  /\ IF ~getCalendarOk(cal, user) THEN Fail(w, "delete", "access")
     ELSE IF obj \in DOMAIN calendar_objects /\ calendar_objects[obj].calendar_id = cal
          THEN Fail(w, "delete", "foreignkey")
          ELSE Fail(w, "delete", "notfound")

\* the objects a request may name: the rows, and 0 for a missing one
ObjIds == DOMAIN calendar_objects \cup {0}

\* what a client may send as If-Match: nothing, or an ETag it has seen
IfMatches(obj) == {0} \cup EtagsOf(obj)

\* adminController.forceSyncCalendar, first statement: UPDATE calendars SET
\* sync_token = gen_random_uuid() ... RETURNING; no row gives 404
ForceSyncRotate(cal) ==
  /\ force.pc = "idle"
  /\ cal \in DOMAIN calendars
  /\ calendars' = [calendars EXCEPT ![cal].sync_token = nextUuid]
  /\ nextUuid' = nextUuid + 1
  /\ force' = [pc |-> "rotated", cal |-> cal, sync_token |-> nextUuid]
  /\ mutations' = Append(mutations, Mutation(cal, 0, "sync", 0, nextUuid, 0))
  /\ UNCHANGED <<calendar_objects, sync_changes, now, tx, report, last, Dav>>

\* adminController.forceSyncCalendar, second statement: INSERT INTO sync_changes
\* (object_id and etag are NULL, written 0; created_at is this statement's time)
ForceSyncLog ==
  /\ force.pc = "rotated"
  /\ now <= MaxTime
  /\ sync_changes' =
        IF force.cal \in DOMAIN calendars     \* calendar_id REFERENCES calendars(id)
        THEN sync_changes \cup
               {[calendar_id |-> force.cal, object_id |-> 0, change_type |-> "sync",
                 sync_token |-> force.sync_token, etag |-> 0, created_at |-> now]}
        ELSE sync_changes
  /\ now' = now + 1
  /\ force' = [pc |-> "idle", cal |-> 0, sync_token |-> 0]
  /\ UNCHANGED <<calendars, calendar_objects, nextUuid, tx, report, last, mutations, Dav>>

\* adminController.cleanupSyncData: DELETE FROM sync_changes WHERE created_at <
\* NOW() - INTERVAL 'days' (age is that interval in clock ticks), and DELETE
\* FROM webdav_locks WHERE expires_at < CURRENT_TIMESTAMP.  The two statements
\* are sent together and write different tables that no handler reads together.
CleanupSyncData(age) ==
  /\ sync_changes' = {r \in sync_changes : ~(r.created_at < now - age)}
  /\ webdav_locks' = {l \in webdav_locks : ~(l.expires_at < now)}
  /\ UNCHANGED <<calendars, calendar_objects, now, nextUuid, tx, force, report, last,
                 mutations, webdav_properties, view>>

\* the tokens a calendar has had
TokensOf(cal) ==
  {calendars[cal].sync_token} \cup
  {mutations[i].prev_token : i \in {j \in 1..Len(mutations) : mutations[j].calendar_id = cal}}

\* what a client may send as sync token: a token the calendar has had, or a
\* UUID that never was one (the calendar's id is such a UUID)
SyncTokens(cal) == TokensOf(cal) \cup {cal}

\* CalDAVController.getChangesSince up to its first await: the change list
SyncReportChanges(user, cal, tok) ==
  /\ report.pc # "changes"
  /\ report' = IF getCalendarOk(cal, user)
               THEN [pc |-> "changes", cal |-> cal, syncToken |-> tok, status |-> "ok",
                     changes |-> getChangesSince(cal, tok), newSyncToken |-> 0]
               ELSE [pc |-> "done", cal |-> cal, syncToken |-> tok, status |-> "error",
                     changes |-> <<>>, newSyncToken |-> 0]
  /\ UNCHANGED <<calendars, calendar_objects, sync_changes, now, nextUuid, tx, force,
                 last, mutations, Dav>>

\* CalDAVController.getChangesSince, its second await: newSyncToken from
\* CalDAVService.getSyncToken, and the response
SyncReportToken ==
  /\ report.pc = "changes"
  /\ report' = IF report.cal \in DOMAIN calendars
               THEN [report EXCEPT !.pc = "done",
                                   !.newSyncToken = calendars[report.cal].sync_token]
               ELSE [report EXCEPT !.pc = "done", !.status = "error", !.changes = <<>>]
  /\ UNCHANGED <<calendars, calendar_objects, sync_changes, now, nextUuid, tx, force,
                 last, mutations, Dav>>

(***************************************************************************)
(* Calendar collections                                                    *)
(***************************************************************************)
CalendarNames == {"work"}

\* an answer to a calendar request
Answer(op, status, error) ==
  /\ last' = Response(op, status, error)
  /\ UNCHANGED <<now, tx, force, report, mutations, view>>

\* CalDAVService.createCalendar: id = uuidv4(), sync_token by its column default
createCalendar(userId, name, isDefault, isPublic) ==
  /\ nextUuid + 1 <= MaxUuid
  /\ calendars' = (nextUuid :> [user_id |-> userId, name |-> name,
                                is_default |-> isDefault, is_public |-> isPublic,
                                sync_token |-> nextUuid + 1]) @@ calendars
  /\ nextUuid' = nextUuid + 2
  /\ Answer("createCalendar", "ok", "none")
  /\ UNCHANGED <<calendar_objects, sync_changes, webdav_locks, webdav_properties>>

\* CalDAVService.updateCalendar with data = {name}: UPDATE calendars SET name
\* ... WHERE id AND user_id; no row, "Calendar not found or access denied"
updateCalendar(calendarId, userId, name) ==
  IF getCalendarOk(calendarId, userId)
  THEN /\ calendars' = [calendars EXCEPT ![calendarId].name = name]
       /\ Answer("updateCalendar", "ok", "none")
       /\ UNCHANGED <<calendar_objects, sync_changes, nextUuid, webdav_locks,
                      webdav_properties>>
  ELSE /\ Answer("updateCalendar", "error", "notfound")
       /\ UNCHANGED <<calendars, calendar_objects, sync_changes, nextUuid, webdav_locks,
                      webdav_properties>>

\* a mutant of the DELETE: without AND is_default = FALSE
Deletable_any(row) == TRUE

\* deleteCalendar's condition is_default = FALSE
Deletable(row) == row.is_default = FALSE

\* CalDAVService.deleteCalendar: DELETE FROM calendars WHERE id AND user_id AND
\* is_default = FALSE; rowCount 0 throws.  The delete cascades to
\* calendar_objects and sync_changes (ON DELETE CASCADE on calendar_id).  Every
\* calendar_objects row the cascade deletes fires calendar_objects_sync_trigger,
\* whose INSERT INTO sync_changes reads the sync_token of the calendar row, now
\* deleted: NULL into a NOT NULL column (and a calendar_id and object_id that
\* reference deleted rows), so the statement fails and is rolled back.  webdav_locks and
\* webdav_properties hold paths, not references, and are not touched.
deleteCalendar(calendarId, userId) ==
  IF ~getCalendarOk(calendarId, userId)
  THEN /\ Answer("deleteCalendar", "error", "notfound")
       /\ UNCHANGED <<calendars, calendar_objects, sync_changes, nextUuid, webdav_locks,
                      webdav_properties>>
  ELSE IF ~Deletable(calendars[calendarId])
  THEN /\ Answer("deleteCalendar", "error", "default")
       /\ UNCHANGED <<calendars, calendar_objects, sync_changes, nextUuid, webdav_locks,
                      webdav_properties>>
  ELSE IF \E o \in DOMAIN calendar_objects : calendar_objects[o].calendar_id = calendarId
  THEN /\ Answer("deleteCalendar", "error", "cascade")
       /\ UNCHANGED <<calendars, calendar_objects, sync_changes, nextUuid, webdav_locks,
                      webdav_properties>>
  ELSE /\ calendars' = [c \in DOMAIN calendars \ {calendarId} |-> calendars[c]]
       /\ sync_changes' = {r \in sync_changes : r.calendar_id # calendarId}
       /\ Answer("deleteCalendar", "ok", "none")
       /\ UNCHANGED <<calendar_objects, nextUuid, webdav_locks, webdav_properties>>

(***************************************************************************)
(* Reads: the calendar lookup and the WebCal feed                          *)
(***************************************************************************)
\* a read request completes
Read(op, key, user, status, rows) ==
  /\ view' = [op |-> op, key |-> key, user |-> user, status |-> status, rows |-> rows]
  /\ UNCHANGED <<calendars, calendar_objects, sync_changes, now, nextUuid, tx, force,
                 report, last, mutations, webdav_locks, webdav_properties>>

\* CalDAVService.getCalendar as a request: result.rows[0] || null
getCalendar(calendarId, userId) ==
  Read("getCalendar", calendarId, userId, "ok",
       IF getCalendarOk(calendarId, userId) THEN {calendars[calendarId]} ELSE {})

\* String.prototype.toLowerCase on the status values
toLowerCase(str) ==
  CASE str = "CONFIRMED" -> "confirmed"
    [] str = "CANCELLED" -> "cancelled"
    [] str = "TENTATIVE" -> "tentative"
    [] OTHER -> str

\* the property `key` of a result row as JavaScript reads it: the rows carry
\* the column names of the table, and a name that is no column reads undefined
Prop(row, key) == IF key \in DOMAIN row THEN row[key] ELSE "undefined"

\* an event of a feed: what createEvent is given of the row at time t (start:
\* dtstart || new Date(), end: dtend || new Date())
FeedEvent(id, row, t) ==
  [id |-> id, uid |-> row.uid, status |-> toLowerCase(row.status),
   start |-> IF row.dtstart = NoTime THEN t ELSE row.dtstart,
   end |-> IF row.dtend = NoTime THEN t ELSE row.dtend]

\* the events of the feed of routes/webcal.ts asked at time t: one for every
\* calendar_objects row of the calendar with component_type = 'VEVENT'
webcalEvents(calendarId, t) ==
  {FeedEvent(o, calendar_objects[o], t) :
     o \in {x \in DOMAIN calendar_objects :
              /\ calendar_objects[x].calendar_id = calendarId
              /\ calendar_objects[x].component_type = "VEVENT"}}

\* the events of generateICalendarFeed asked at time t: one for every row whose
\* componentType is "VEVENT"
feedEvents(calendarId, t) ==
  {FeedEvent(o, calendar_objects[o], t) :
     o \in {x \in DOMAIN calendar_objects :
              /\ calendar_objects[x].calendar_id = calendarId
              /\ Prop(calendar_objects[x], "componentType") = "VEVENT"}}

\* the caller of a feed request that carries no valid bearer token
NoUser == 0

\* routes/webcal.ts GET /webcal/:calendarId/calendar.ics: 401 without a user,
\* 404 unless the calendar is the user's, else the feed as of now
webcalFeed(calendarId, userId) ==
  IF userId = NoUser THEN Read("webcal", calendarId, userId, "401", {})
  ELSE IF ~getCalendarOk(calendarId, userId)
  THEN Read("webcal", calendarId, userId, "404", {})
  ELSE Read("webcal", calendarId, userId, "ok", webcalEvents(calendarId, now))

\* CalDAVService.generateICalendarFeed behind CalDAVController.getWebCalFeed:
\* getCalendar, getCalendarObjects (result.rows as they come), and the feed
\* as of now
generateICalendarFeed(calendarId, userId) ==
  IF userId = NoUser THEN Read("feed", calendarId, userId, "401", {})
  ELSE IF ~getCalendarOk(calendarId, userId)
  THEN Read("feed", calendarId, userId, "500", {})
  ELSE Read("feed", calendarId, userId, "ok", feedEvents(calendarId, now))

(***************************************************************************)
(* WebDAV properties                                                       *)
(***************************************************************************)
PropertyValues == {"a"}

\* the rows of a property key: UNIQUE(resource_path, namespace, name)
PropertyRows(props, resourcePath, namespace, name) ==
  {q \in props : /\ q.resource_path = resourcePath
                  /\ q.namespace = namespace
                  /\ q.name = name}

\* a mutant of setProperty: ON CONFLICT ... DO NOTHING
setProperty_donothing(resourcePath, namespace, name, value) ==
  /\ nextUuid <= MaxUuid
  /\ webdav_properties' =
        IF PropertyRows(webdav_properties, resourcePath, namespace, name) = {}
        THEN webdav_properties \cup
               {[id |-> nextUuid, resource_path |-> resourcePath,
                 namespace |-> namespace, name |-> name, value |-> value]}
        ELSE webdav_properties
  /\ nextUuid' = nextUuid + 1
  /\ UNCHANGED <<calendars, calendar_objects, sync_changes, now, tx, force, report,
                 last, mutations, webdav_locks, view>>

\* CalDAVService.setProperty: INSERT ... ON CONFLICT (resource_path, namespace,
\* name) DO UPDATE SET value; the id is drawn from uuidv4() either way
setProperty(resourcePath, namespace, name, value) ==
  /\ nextUuid <= MaxUuid
  /\ LET old == {q \in webdav_properties : /\ q.resource_path = resourcePath
                                            /\ q.namespace = namespace
                                            /\ q.name = name}
     IN webdav_properties' =
          IF old = {}
          THEN webdav_properties \cup
                 {[id |-> nextUuid, resource_path |-> resourcePath,
                   namespace |-> namespace, name |-> name, value |-> value]}
          ELSE (webdav_properties \ old) \cup {[q EXCEPT !.value = value] : q \in old}
  /\ nextUuid' = nextUuid + 1
  /\ UNCHANGED <<calendars, calendar_objects, sync_changes, now, tx, force, report,
                 last, mutations, webdav_locks, view>>

\* CalDAVService.getProperty: result.rows[0] || null
getProperty(resourcePath, namespace, name) ==
  Read("getProperty", <<resourcePath, namespace, name>>, 0, "ok",
       PropertyRows(webdav_properties, resourcePath, namespace, name))

\* a mutant of removeProperty: DELETE ... WHERE resource_path = $1
removeProperty_path(resourcePath, namespace, name) ==
  /\ webdav_properties' = {q \in webdav_properties : q.resource_path # resourcePath}
  /\ view' = [op |-> "removeProperty", key |-> <<resourcePath, namespace, name>>,
              user |-> 0, status |-> "ok", rows |-> {}]
  /\ UNCHANGED <<calendars, calendar_objects, sync_changes, now, nextUuid, tx, force,
                 report, last, mutations, webdav_locks>>

\* CalDAVService.removeProperty: the DELETE, whose rowCount is not looked at;
\* the promise resolves
removeProperty(resourcePath, namespace, name) ==
  /\ webdav_properties' =
        webdav_properties \ PropertyRows(webdav_properties, resourcePath, namespace, name)
  /\ view' = [op |-> "removeProperty", key |-> <<resourcePath, namespace, name>>,
              user |-> 0, status |-> "ok", rows |-> {}]
  /\ UNCHANGED <<calendars, calendar_objects, sync_changes, now, nextUuid, tx, force,
                 report, last, mutations, webdav_locks>>

(***************************************************************************)
(* Lock management                                                         *)
(***************************************************************************)
\* resource paths: '/calendars/<cal>/' (obj = 0) and '/calendars/<cal>/<obj>.ics'
Path(cal, obj) == [cal |-> cal, obj |-> obj]

\* the paths of the calendars and objects there are
ResourcePaths ==
  {Path(c, 0) : c \in DOMAIN calendars} \cup
  {Path(calendar_objects[o].calendar_id, o) : o \in DOMAIN calendar_objects}

\* the paths a lock request may name: those, and one of no resource (the path
\* is not looked up)
LockPaths == ResourcePaths \cup {Path(0, 0)}

LockScopes == {"exclusive", "shared"}
LockDepths == {"0", "infinity"}
LockTimeouts == {1, 2}     \* timeoutSeconds, in clock ticks

\* time passes
Tick ==
  /\ now <= MaxTime
  /\ now' = now + 1
  /\ UNCHANGED <<calendars, calendar_objects, sync_changes, nextUuid, tx, force, report,
                 last, mutations, Dav>>

\* CalDAVService.createLock: a token from uuidv4(), expiresAt = Date.now() +
\* timeoutSeconds, and an INSERT that no lookup of the path precedes; the
\* inserted row is returned
createLock(resourcePath, lockType, lockScope, depth, timeoutSeconds) ==
  /\ nextUuid + 1 <= MaxUuid
  /\ webdav_locks' = webdav_locks \cup
        {[id |-> nextUuid + 1, resource_path |-> resourcePath, lock_token |-> nextUuid,
          lock_type |-> lockType, lock_scope |-> lockScope, depth |-> depth,
          expires_at |-> now + timeoutSeconds]}
  /\ nextUuid' = nextUuid + 2
  /\ UNCHANGED <<calendars, calendar_objects, sync_changes, now, tx, force, report,
                 last, mutations, webdav_properties, view>>

\* a mutant of the lookup: WHERE lock_token = $1, without the expiry condition
NotExpired_always(lock) == TRUE

\* getLock's condition expires_at > CURRENT_TIMESTAMP
NotExpired(lock) == lock.expires_at > now

\* CalDAVService.getLock
getLock(lockToken) ==
  /\ view' = [op |-> "getLock", key |-> lockToken, user |-> 0, status |-> "ok",
              rows |-> {l \in webdav_locks : l.lock_token = lockToken /\ NotExpired(l)}]
  /\ UNCHANGED <<calendars, calendar_objects, sync_changes, now, nextUuid, tx, force,
                 report, last, mutations, webdav_locks, webdav_properties>>

\* CalDAVService.removeLock: the DELETE, whose rowCount is not looked at; the
\* promise resolves
removeLock(lockToken) ==
  /\ webdav_locks' = {l \in webdav_locks : l.lock_token # lockToken}
  /\ view' = [op |-> "removeLock", key |-> lockToken, user |-> 0, status |-> "ok",
              rows |-> {}]
  /\ UNCHANGED <<calendars, calendar_objects, sync_changes, now, nextUuid, tx, force,
                 report, last, mutations, webdav_properties>>

\* CalDAVService.cleanupExpiredLocks
cleanupExpiredLocks ==
  /\ webdav_locks' = {l \in webdav_locks : ~(l.expires_at < now)}
  /\ UNCHANGED <<calendars, calendar_objects, sync_changes, now, nextUuid, tx, force,
                 report, last, mutations, webdav_properties, view>>

\* the lock tokens a client may present: those of the rows, and an unknown one
LockTokens == {l.lock_token : l \in webdav_locks} \cup {0}

\* The object store under concurrent writers.
Next ==
  \E w \in Writers :
     \/ Begin(w)
     \/ \E user \in Users, cal \in DOMAIN calendars, d \in Docs : CreateObject(w, user, cal, d)
     \/ \E user \in Users, cal \in DOMAIN calendars, obj \in ObjIds, d \in Docs :
          \E ifMatch \in IfMatches(obj) : UpdateObject(w, user, cal, obj, d, ifMatch)
     \/ \E user \in Users, cal \in DOMAIN calendars, obj \in ObjIds :
          \E ifMatch \in IfMatches(obj) : DeleteObject(w, user, cal, obj, ifMatch)

Spec == Init /\ [][Next]_vars

\* The object store with one writer: requests one after the other.
SeqWriter == "w1"

NextSeq ==
  \/ Begin(SeqWriter)
  \/ \E user \in Users, cal \in DOMAIN calendars, d \in Docs :
       CreateObject(SeqWriter, user, cal, d)
  \/ \E user \in Users, cal \in DOMAIN calendars, obj \in ObjIds, d \in Docs :
       \E ifMatch \in IfMatches(obj) : UpdateObject(SeqWriter, user, cal, obj, d, ifMatch)
  \/ \E user \in Users, cal \in DOMAIN calendars, obj \in ObjIds :
       \E ifMatch \in IfMatches(obj) : DeleteObject(SeqWriter, user, cal, obj, ifMatch)

SpecSeq == Init /\ [][NextSeq]_vars

\* The sync engine: concurrent writers (of documents without UID or SEQUENCE),
\* the sync report, and the administrative force-sync and cleanup.
SyncDocs == {d \in Docs : d.hasEvent /\ d.uid = NoUid /\ ~d.hasSequence}

NextSync ==
  \/ \E w \in Writers :
       \/ Begin(w)
       \/ \E cal \in DOMAIN calendars, d \in SyncDocs :
            CreateObject(w, calendars[cal].user_id, cal, d)
       \/ \E cal \in DOMAIN calendars, obj \in DOMAIN calendar_objects, d \in SyncDocs :
            UpdateObject(w, calendars[cal].user_id, cal, obj, d, 0)
  \/ \E cal \in DOMAIN calendars : ForceSyncRotate(cal)
  \/ ForceSyncLog
  \/ \E age \in 0..now : CleanupSyncData(age)
  \/ \E user \in Users, cal \in DOMAIN calendars :
       \E tok \in SyncTokens(cal) : SyncReportChanges(user, cal, tok)
  \/ SyncReportToken

SpecSync == Init /\ [][NextSync]_vars

\* The lock manager: lock, lookup, unlock and sweep requests, and the passing
\* of time.
NextLock ==
  \/ Tick
  \/ \E path \in LockPaths, scope \in LockScopes, timeout \in LockTimeouts :
       createLock(path, "write", scope, "0", timeout)
  \/ \E tok \in LockTokens : getLock(tok)
  \/ \E tok \in LockTokens : removeLock(tok)
  \/ cleanupExpiredLocks

SpecLock == Init /\ [][NextLock]_vars

\* The collections: calendars created and deleted by their users, one writer of
\* objects (the calendar's owner), and locks and properties on the calendars'
\* paths.
NextCol ==
  \/ \E isDefault \in BOOLEAN : createCalendar(1, "work", isDefault, FALSE)
  \/ \E cal \in DOMAIN calendars, user \in Users : deleteCalendar(cal, user)
  \/ Begin(SeqWriter)
  \/ \E cal \in DOMAIN calendars, d \in SyncDocs :
       CreateObject(SeqWriter, calendars[cal].user_id, cal, d)
  \/ \E cal \in DOMAIN calendars, obj \in DOMAIN calendar_objects, d \in SyncDocs :
       UpdateObject(SeqWriter, calendars[cal].user_id, cal, obj, d, 0)
  \/ \E cal \in DOMAIN calendars, obj \in DOMAIN calendar_objects :
       DeleteObject(SeqWriter, calendars[cal].user_id, cal, obj, 0)
  \/ \E cal \in DOMAIN calendars :
       createLock(Path(cal, 0), "write", "exclusive", "infinity", 2)
  \/ \E cal \in DOMAIN calendars, value \in PropertyValues :
       setProperty(Path(cal, 0), "DAV:", "displayname", value)

SpecCol == Init /\ [][NextCol]_vars

\* What moves a sync token: one writer of objects, calendars renamed, locks and
\* properties set on the calendars' paths, and the administrative force-sync.
NextToken ==
  \/ \E cal \in DOMAIN calendars, user \in Users, name \in CalendarNames :
       updateCalendar(cal, user, name)
  \/ Begin(SeqWriter)
  \/ \E cal \in DOMAIN calendars, d \in SyncDocs :
       CreateObject(SeqWriter, calendars[cal].user_id, cal, d)
  \/ \E cal \in DOMAIN calendars, obj \in DOMAIN calendar_objects, d \in SyncDocs :
       UpdateObject(SeqWriter, calendars[cal].user_id, cal, obj, d, 0)
  \/ \E cal \in DOMAIN calendars, obj \in DOMAIN calendar_objects :
       DeleteObject(SeqWriter, calendars[cal].user_id, cal, obj, 0)
  \/ \E cal \in DOMAIN calendars : ForceSyncRotate(cal)
  \/ ForceSyncLog
  \/ \E cal \in DOMAIN calendars :
       createLock(Path(cal, 0), "write", "exclusive", "infinity", 2)
  \/ \E cal \in DOMAIN calendars, value \in PropertyValues :
       setProperty(Path(cal, 0), "DAV:", "displayname", value)

SpecToken == Init /\ [][NextToken]_vars

\* The change log: one writer of objects, calendars created and deleted, and
\* the administrative force-sync and cleanup.
NextLog ==
  \/ createCalendar(1, "work", FALSE, FALSE)
  \/ \E cal \in DOMAIN calendars : deleteCalendar(cal, calendars[cal].user_id)
  \/ Begin(SeqWriter)
  \/ \E cal \in DOMAIN calendars, d \in SyncDocs :
       CreateObject(SeqWriter, calendars[cal].user_id, cal, d)
  \/ \E cal \in DOMAIN calendars, obj \in DOMAIN calendar_objects, d \in SyncDocs :
       UpdateObject(SeqWriter, calendars[cal].user_id, cal, obj, d, 0)
  \/ \E cal \in DOMAIN calendars, obj \in DOMAIN calendar_objects :
       DeleteObject(SeqWriter, calendars[cal].user_id, cal, obj, 0)
  \/ \E cal \in DOMAIN calendars : ForceSyncRotate(cal)
  \/ ForceSyncLog
  \/ CleanupSyncData(0)

SpecLog == Init /\ [][NextLog]_vars

\* The reads: calendars created private or public, one writer (the calendar's
\* owner) of events with and without STATUS:CANCELLED, and the calendar
\* lookup and the two feeds asked by the owner, by another user and by nobody.
FeedDocs ==
  {[hasEvent |-> TRUE, uid |-> NoUid, hasSequence |-> FALSE, sequence |-> 0,
    status |-> st, start |-> NoTime, end |-> NoTime] : st \in {NoStatus, "CANCELLED"}} \cup
  {[hasEvent |-> TRUE, uid |-> NoUid, hasSequence |-> FALSE, sequence |-> 0,
    status |-> NoStatus, start |-> 1, end |-> 1]}

NextRead ==
  \/ \E isPublic \in BOOLEAN : createCalendar(1, "work", FALSE, isPublic)
  \/ Begin(SeqWriter)
  \/ \E cal \in DOMAIN calendars, d \in FeedDocs :
       CreateObject(SeqWriter, calendars[cal].user_id, cal, d)
  \/ \E cal \in DOMAIN calendars, obj \in DOMAIN calendar_objects, d \in FeedDocs :
       UpdateObject(SeqWriter, calendars[cal].user_id, cal, obj, d, 0)
  \/ \E cal \in DOMAIN calendars, user \in Users : getCalendar(cal, user)
  \/ \E cal \in DOMAIN calendars, user \in Users \cup {NoUser} : webcalFeed(cal, user)
  \/ \E cal \in DOMAIN calendars, user \in Users \cup {NoUser} :
       generateICalendarFeed(cal, user)

SpecRead == Init /\ [][NextRead]_vars

\* The object store under locks: one writer (the calendar's owner), lock
\* requests, and the passing of time.
NextLocked ==
  \/ Begin(SeqWriter)
  \/ \E cal \in DOMAIN calendars, d \in SyncDocs :
       CreateObject(SeqWriter, calendars[cal].user_id, cal, d)
  \/ \E cal \in DOMAIN calendars, obj \in DOMAIN calendar_objects, d \in SyncDocs :
       UpdateObject(SeqWriter, calendars[cal].user_id, cal, obj, d, 0)
  \/ \E cal \in DOMAIN calendars, obj \in DOMAIN calendar_objects :
       DeleteObject(SeqWriter, calendars[cal].user_id, cal, obj, 0)
  \/ Tick
  \/ \E path \in LockPaths, depth \in LockDepths, timeout \in LockTimeouts :
       createLock(path, "write", "exclusive", depth, timeout)

SpecLocked == Init /\ [][NextLocked]_vars

(***************************************************************************)
(* Properties                                                              *)
(***************************************************************************)
Tables == <<calendars, calendar_objects, sync_changes>>

\* the rows of a calendar in the table `objs`
ObjectsIn(objs, cal) ==
  [o \in {x \in DOMAIN objs : objs[x].calendar_id = cal} |-> objs[o]]

\* the history of one calendar, in commit order
MutationsOf(cal) == SelectSeq(mutations, LAMBDA m : m.calendar_id = cal)

\* the sync tokens of a list of change rows
TokensIn(rows) == [i \in 1..Len(rows) |-> rows[i].sync_token]

\* C1: in every step, the rows of a calendar's objects change if and only if the
\* calendar's sync_token is replaced and exactly one change row carrying the new
\* token (and the written object's id and ETag) is appended: no state lies
\* between the object write, the log append and the token rotation.
C1_WriteLogTokenTogether ==
  [][\A cal \in DOMAIN calendars :
       LET wrote == ObjectsIn(calendar_objects', cal) # ObjectsIn(calendar_objects, cal)
           rotated == calendars'[cal].sync_token # calendars[cal].sync_token
           added == {r \in sync_changes' \ sync_changes : r.calendar_id = cal}
       IN /\ wrote <=> rotated
          /\ wrote <=> added # {}
          /\ wrote =>
               /\ Cardinality(added) = 1
               /\ \A r \in added :
                    /\ r.sync_token = calendars'[cal].sync_token
                    /\ r.object_id \in DOMAIN calendar_objects'
                    /\ calendar_objects'[r.object_id].etag = r.etag
                    /\ r.object_id \in DOMAIN calendar_objects =>
                         calendar_objects[r.object_id] # calendar_objects'[r.object_id]
          /\ \A r \in sync_changes : r.calendar_id = cal => r \in sync_changes'
    ]_vars

\* C1 witness: two writers were open at once, and a create and an update of the
\* same calendar have both committed.
C1_Witness ==
  /\ Len(mutations) >= 2
  /\ \E i \in 1..Len(mutations) : mutations[i].change_type = "update"
  /\ \E r, q \in sync_changes : r.created_at > q.created_at /\ r.sync_token < q.sync_token

\* C2: once a mutation has committed, the changes since the token that was
\* current just before it include a row carrying the token that is current now.
C2_PreviousTokenSeesNewToken ==
  \A i \in 1..Len(mutations) :
     LET m == mutations[i]
     IN m.sync_token = calendars[m.calendar_id].sync_token =>
          \E k \in 1..Len(getChangesSince(m.calendar_id, m.prev_token)) :
             getChangesSince(m.calendar_id, m.prev_token)[k].sync_token
               = calendars[m.calendar_id].sync_token

\* C3: with requests one after the other, for every token T0 a calendar has had
\* (the token it was created with included) the changes since T0 are exactly
\* the mutations committed after T0 was current, in the order they were applied.
C3_ExactlyTheMutationsSince ==
  \A cal \in DOMAIN calendars :
     LET ms == MutationsOf(cal)
     IN \A k \in 0..Len(ms) :
          LET T0 == IF k = 0
                    THEN (IF Len(ms) = 0 THEN calendars[cal].sync_token ELSE ms[1].prev_token)
                    ELSE ms[k].sync_token
          IN TokensIn(getChangesSince(cal, T0))
               = [i \in 1..(Len(ms) - k) |-> ms[k + i].sync_token]

\* C4: with concurrent writers, if token T1 (produced by a mutation) became
\* current before token T2, the changes since T1 contain the change that made
\* T2 current.
C4_LaterTokenInChangesSince ==
  \A cal \in DOMAIN calendars :
     LET ms == MutationsOf(cal)
     IN \A i, j \in 1..Len(ms) :
          i < j =>
            \E k \in 1..Len(getChangesSince(cal, ms[i].sync_token)) :
               getChangesSince(cal, ms[i].sync_token)[k].sync_token = ms[j].sync_token

\* a token that never was the calendar's, or whose change row has been purged
InvalidToken(cal, tok) ==
  \/ tok \notin TokensOf(cal)
  \/ \E i \in 1..Len(mutations) :
        /\ mutations[i].sync_token = tok
        /\ mutations[i].change_type # "sync"
        /\ ~\E r \in sync_changes : r.sync_token = tok

\* C5: a sync report asked with a token that never was the calendar's, or whose
\* change row the cleanup has purged, ends in TokenInvalidated, never in an
\* ordinary change list.
C5_StaleTokenInvalidated ==
  [][\A user \in Users, cal \in DOMAIN calendars :
       \A tok \in SyncTokens(cal) :
          (/\ SyncReportChanges(user, cal, tok)
           /\ getCalendarOk(cal, user)
           /\ InvalidToken(cal, tok))
          => report'.status = "TokenInvalidated"
    ]_vars

\* an update request that passes every check the service makes
ValidUpdate(user, cal, obj, d) ==
  /\ getCalendarOk(cal, user)
  /\ ParseOk(d)
  /\ obj \in DOMAIN calendar_objects
  /\ calendar_objects[obj].calendar_id = cal
  /\ ~UidTaken(cal, parseICalendarData(d, nextUuid + 2).uid, obj)

\* C6: an update that carries an If-Match different from the object's current
\* ETag fails with PreconditionFailed and changes no table.
C6_StaleEtagRejected ==
  [][\A w \in Writers, user \in Users, cal \in DOMAIN calendars, d \in Docs :
       \A obj \in DOMAIN calendar_objects :
          \A ifMatch \in IfMatches(obj) \ {0} :
             (/\ UpdateObject(w, user, cal, obj, d, ifMatch)
              /\ ValidUpdate(user, cal, obj, d)
              /\ ifMatch # calendar_objects[obj].etag)
             => /\ last'.status = "error"
                /\ last'.error = "precondition"
                /\ UNCHANGED Tables
    ]_vars

\* C7: of the writes of one object conditioned on the same ETag at most one
\* succeeds, and a conditioned write succeeds only on the version it names.
C7_ConflictsReported ==
  \A i, j \in 1..Len(mutations) :
     (i < j /\ mutations[i].object_id = mutations[j].object_id /\ mutations[j].if_match # 0)
     => /\ mutations[i].if_match # mutations[j].if_match
        /\ (\A k \in (i + 1)..(j - 1) : mutations[k].object_id # mutations[i].object_id)
             => mutations[j].if_match = mutations[i].etag

\* no two rows of one calendar carry the same uid
UniqueUid ==
  \A o1, o2 \in DOMAIN calendar_objects :
     (/\ o1 # o2
      /\ calendar_objects[o1].calendar_id = calendar_objects[o2].calendar_id)
     => calendar_objects[o1].uid # calendar_objects[o2].uid

C9_EtagNeverReused ==
  /\ \A i, j \in 1..Len(mutations) :
        (i < j /\ mutations[i].object_id = mutations[j].object_id
               /\ mutations[i].change_type # "sync")
        => mutations[i].etag # mutations[j].etag
  /\ \A o \in DOMAIN calendar_objects :
        \E i \in 1..Len(mutations) :
           /\ mutations[i].object_id = o
           /\ mutations[i].etag = calendar_objects[o].etag
           /\ \A j \in (i + 1)..Len(mutations) : mutations[j].object_id # o

\* C9 witness: an object written three times (a create and two updates).
C9_Witness ==
  \E o \in DOMAIN calendar_objects : Cardinality(EtagsOf(o)) >= 3

\* C10: no step lowers an object's sequence, and an update whose document
\* carries a lower sequence than the stored one (or none, the stored one being
\* positive) fails and changes no table.
C10_SequenceNeverDecreases ==
  [][/\ \A o \in DOMAIN calendar_objects :
          o \in DOMAIN calendar_objects' =>
             calendar_objects'[o].sequence >= calendar_objects[o].sequence
     /\ \A w \in Writers, user \in Users, cal \in DOMAIN calendars, d \in Docs :
          \A obj \in DOMAIN calendar_objects :
             (/\ UpdateObject(w, user, cal, obj, d, 0)
              /\ ValidUpdate(user, cal, obj, d)
              /\ parseICalendarData(d, nextUuid + 2).sequence
                   < calendar_objects[obj].sequence)
             => /\ last'.status = "error"
                /\ last'.error = "validation"
                /\ UNCHANGED Tables
    ]_vars
\* an exclusive lock that has not expired
ActiveExclusive(l) == l.lock_scope = "exclusive" /\ l.expires_at > now

\* C11: at no time do two exclusive locks that have not expired hold the same
\* resource path (the second acquireLock fails with Locked).
C11_OneExclusiveLock ==
  \A l1, l2 \in webdav_locks :
     (/\ ActiveExclusive(l1) /\ ActiveExclusive(l2)
      /\ l1.resource_path = l2.resource_path)
     => l1 = l2

\* C12: a lookup by token never returns a lock whose expiry has passed, swept
\* or not, and an acquireLock on a path all of whose locks have expired succeeds
\* and adds the new lock.
C12_ExpiredLockAbsent ==
  [][/\ \A tok \in LockTokens :
          getLock(tok) => \A l \in view'.rows : ~(l.expires_at <= now)
     /\ \A path \in LockPaths, scope \in LockScopes, timeout \in LockTimeouts :
             (/\ createLock(path, "write", scope, "0", timeout)
              /\ \A l \in webdav_locks : l.resource_path = path => l.expires_at <= now)
             => \E l \in webdav_locks' \ webdav_locks :
                   l.resource_path = path /\ l.lock_scope = scope /\ l.expires_at > now
    ]_vars

\* C12 witness: a lookup of an expired lock that has not been swept returned
\* nothing, and its path has been locked again.
C12_Witness ==
  /\ view.op = "getLock"
  /\ view.rows = {}
  /\ \E l \in webdav_locks :
        /\ l.lock_token = view.key
        /\ l.expires_at < now
        /\ \E l2 \in webdav_locks :
              l2.resource_path = l.resource_path /\ l2.expires_at > now

\* does the lock cover the path: the path itself, or with depth other than 0 a
\* resource of the locked calendar
Covers(l, path) ==
  \/ l.resource_path = path
  \/ l.depth # "0" /\ l.resource_path.obj = 0 /\ l.resource_path.cal = path.cal

\* C13: while an exclusive write lock that has not expired covers the path of
\* an object or a calendar, no step of a request (none presents a lock token)
\* changes, adds or removes that resource.
C13_LockedResourceUnchanged ==
  [][\A l \in webdav_locks :
       (ActiveExclusive(l) /\ l.lock_type = "write")
       => /\ \A o \in DOMAIN calendar_objects :
               Covers(l, Path(calendar_objects[o].calendar_id, o))
               => /\ o \in DOMAIN calendar_objects'
                  /\ calendar_objects'[o] = calendar_objects[o]
          /\ \A o \in DOMAIN calendar_objects' \ DOMAIN calendar_objects :
               ~Covers(l, Path(calendar_objects'[o].calendar_id, o))
          /\ \A c \in DOMAIN calendars :
               Covers(l, Path(c, 0)) => c \in DOMAIN calendars'
    ]_vars
\* the change rows of a calendar
ChangesOf(changes, cal) == {r \in changes : r.calendar_id = cal}

\* the rows of the path-keyed tables under the calendar's path prefix
UnderPath(rows, cal) == {r \in rows : r.resource_path.cal = cal}

\* C14: no step removes a calendar flagged is_default, and a deleteCalendar of
\* one by anyone fails and leaves the calendar, its sync_token, its objects and
\* its change rows as they were.
C14_DefaultNeverDeleted ==
  [][\A cal \in DOMAIN calendars :
       calendars[cal].is_default
       => /\ cal \in DOMAIN calendars'
          /\ \A user \in Users :
               deleteCalendar(cal, user)
               => /\ last'.status = "error"
                  /\ calendars'[cal] = calendars[cal]
                  /\ ObjectsIn(calendar_objects', cal) = ObjectsIn(calendar_objects, cal)
                  /\ ChangesOf(sync_changes', cal) = ChangesOf(sync_changes, cal)
    ]_vars

\* C14 witness: the owner's deleteCalendar of a default calendar that has no
\* objects (nothing but the flag stands in its way) has been refused.
C14_Witness ==
  /\ last = Response("deleteCalendar", "error", "default")
  /\ \E cal \in DOMAIN calendars :
        /\ calendars[cal].is_default
        /\ ObjectsIn(calendar_objects, cal) = <<>>
        /\ cal # 1

\* C15: the owner's deleteCalendar of a calendar that is not the default one
\* succeeds and leaves no row of the calendar: no calendar row, no object,
\* no change row, and no lock or property under its path.
C15_DeleteCascades ==
  [][\A cal \in DOMAIN calendars :
       (/\ deleteCalendar(cal, calendars[cal].user_id)
        /\ ~calendars[cal].is_default)
       => /\ last'.status = "ok"
          /\ cal \notin DOMAIN calendars'
          /\ ObjectsIn(calendar_objects', cal) = <<>>
          /\ ChangesOf(sync_changes', cal) = {}
          /\ UnderPath(webdav_locks', cal) = {}
          /\ UnderPath(webdav_properties', cal) = {}
    ]_vars

\* C16: in every step a calendar's sync_token changes if and only if the rows of
\* its objects change, and a changed token is one the calendar never had.
C16_TokenMovesWithObjects ==
  [][\A cal \in DOMAIN calendars \cap DOMAIN calendars' :
       /\ (calendars'[cal].sync_token # calendars[cal].sync_token)
            <=> (ObjectsIn(calendar_objects', cal) # ObjectsIn(calendar_objects, cal))
       /\ (calendars'[cal].sync_token # calendars[cal].sync_token)
            => calendars'[cal].sync_token \notin TokensOf(cal)
    ]_vars

C18_DeleteObjectLogged ==
  [][\A w \in Writers, cal \in DOMAIN calendars, obj \in DOMAIN calendar_objects :
       (/\ DeleteObject(w, calendars[cal].user_id, cal, obj, 0)
        /\ calendar_objects[obj].calendar_id = cal)
       => /\ last'.status = "ok"
          /\ obj \notin DOMAIN calendar_objects'
          /\ calendars'[cal].sync_token # calendars[cal].sync_token
          /\ \E r \in sync_changes' \ sync_changes :
                /\ sync_changes' \ sync_changes = {r}
                /\ r.change_type = "delete"
                /\ r.object_id = obj
                /\ r.sync_token = calendars'[cal].sync_token
    ]_vars
\* C19: a calendar lookup returns the calendar exactly when the caller is its
\* owner or the calendar is public, and a feed is served to an authenticated
\* caller on the same condition.
C19_OwnerOrPublic ==
  [][\A cal \in DOMAIN calendars, user \in Users :
       LET allowed == calendars[cal].user_id = user \/ calendars[cal].is_public
       IN /\ getCalendar(cal, user) => (view'.rows = {calendars[cal]} <=> allowed)
          /\ getCalendar(cal, user) => (view'.rows = {} <=> ~allowed)
          /\ webcalFeed(cal, user) => (view'.status = "ok" <=> allowed)
          /\ generateICalendarFeed(cal, user) => (view'.status = "ok" <=> allowed)
    ]_vars

\* the objects of a calendar that are not cancelled, as feed events
NonCancelled(cal) ==
  {FeedEvent(o, calendar_objects[o], now) :
     o \in {x \in DOMAIN calendar_objects :
              /\ calendar_objects[x].calendar_id = cal
              /\ calendar_objects[x].status # "CANCELLED"}}

\* C20: a feed served for a calendar holds exactly one event for each object of
\* the calendar that is not cancelled, and none for a cancelled one.
C20_FeedIsNonCancelled ==
  [][\A cal \in DOMAIN calendars, user \in Users :
       /\ (webcalFeed(cal, user) /\ view'.status = "ok")
            => view'.rows = NonCancelled(cal)
       /\ (generateICalendarFeed(cal, user) /\ view'.status = "ok")
            => view'.rows = NonCancelled(cal)
    ]_vars
\* the times a feed may be asked at
FeedTimes == 1..(MaxTime + 1)

\* C21: on every state, whenever the feed of a calendar is asked, it is the same
\* document: neither feed depends on the time of the request.
C21_FeedDeterministic ==
  \A cal \in DOMAIN calendars :
     \A t1, t2 \in FeedTimes :
        /\ webcalEvents(cal, t1) = webcalEvents(cal, t2)
        /\ feedEvents(cal, t1) = feedEvents(cal, t2)
\* C22: a createObject whose document has no VEVENT, or whose VEVENT has no
\* UID, fails and changes no table: no object, no change row, the same token.
C22_NoUidRejected ==
  [][\A w \in Writers, cal \in DOMAIN calendars, d \in Docs :
       (/\ CreateObject(w, calendars[cal].user_id, cal, d)
        /\ (~ParseOk(d) \/ d.uid = NoUid))
       => /\ last'.status = "error"
          /\ UNCHANGED Tables
    ]_vars

\* C27: when the sync report is answered, every change that getChangesSince
\* returns for the supplied token at the moment newSyncToken is read is in the
\* change list of the answer.
C27_ReportPairsListAndToken ==
  [][(SyncReportToken /\ report'.status = "ok")
       => \A k \in 1..Len(getChangesSince(report.cal, report.syncToken)) :
             \E j \in 1..Len(report'.changes) :
                report'.changes[j] = getChangesSince(report.cal, report.syncToken)[k]
    ]_vars

\* C28: whenever a calendar's sync_token is one a force-sync gave it, the change
\* row of that force-sync exists: the rotation is never visible without it.
C28_ForceSyncAtomic ==
  \A i \in 1..Len(mutations) :
     (/\ mutations[i].change_type = "sync"
      /\ mutations[i].calendar_id \in DOMAIN calendars
      /\ calendars[mutations[i].calendar_id].sync_token = mutations[i].sync_token)
     => \E r \in sync_changes :
           /\ r.calendar_id = mutations[i].calendar_id
           /\ r.sync_token = mutations[i].sync_token
           /\ r.change_type = "sync"

\* C30: no step changes the uid of an object.
C30_UidStable ==
  [][\A o \in DOMAIN calendar_objects :
       o \in DOMAIN calendar_objects' => calendar_objects'[o].uid = calendar_objects[o].uid
    ]_vars
\* The property store and the removals: properties of the calendar's path set,
\* read and removed, and locks taken and released, in any order.
PropertyNames == {"displayname", "calendar-color"}
PropertyTexts == {"a", "b"}

NextProp ==
  \/ \E path \in ResourcePaths, name \in PropertyNames, value \in PropertyTexts :
       setProperty(path, "DAV:", name, value)
  \/ \E path \in ResourcePaths, name \in PropertyNames : getProperty(path, "DAV:", name)
  \/ \E path \in ResourcePaths, name \in PropertyNames : removeProperty(path, "DAV:", name)
  \/ \E path \in ResourcePaths : createLock(path, "write", "exclusive", "0", 1)
  \/ \E tok \in LockTokens : removeLock(tok)

SpecProp == Init /\ [][NextProp]_vars

\* C23: the store holds at most one row per (path, namespace, name); after
\* setProperty(p, ns, n, v) that row carries v; getProperty answers with the row
\* of the key; and only a setProperty or removeProperty of that key changes it.
C23_PropertyStore ==
  [][/\ \A path \in ResourcePaths, name \in PropertyNames :
          /\ Cardinality(PropertyRows(webdav_properties', path, "DAV:", name)) <= 1
          /\ \A value \in PropertyTexts :
                setProperty(path, "DAV:", name, value)
                => {q.value : q \in PropertyRows(webdav_properties', path, "DAV:", name)}
                     = {value}
          /\ getProperty(path, "DAV:", name)
             => view'.rows = PropertyRows(webdav_properties, path, "DAV:", name)
          /\ ({q.value : q \in PropertyRows(webdav_properties', path, "DAV:", name)}
                 # {q.value : q \in PropertyRows(webdav_properties, path, "DAV:", name)})
             => \/ \E value \in PropertyTexts : setProperty(path, "DAV:", name, value)
                \/ removeProperty(path, "DAV:", name)
    ]_vars

\* a property overwritten: two ids spent on one key, one row, the later value
C23_Witness ==
  /\ nextUuid = 5
  /\ Cardinality(webdav_properties) = 1
  /\ \E q \in webdav_properties : q.id = 3 /\ q.value = "b"
  /\ view.op = "getProperty"
  /\ view.rows = {q \in webdav_properties : q.id = 3 /\ q.value = "b"}
  /\ webdav_locks = {}

\* C24: releasing a lock token no row carries, and removing a property no row
\* carries, succeed and change no table.
C24_RemoveIdempotent ==
  [][/\ \A tok \in LockTokens :
          (removeLock(tok) /\ ~\E l \in webdav_locks : l.lock_token = tok)
          => /\ view'.status = "ok"
             /\ UNCHANGED <<Tables, webdav_locks, webdav_properties>>
     /\ \A path \in ResourcePaths, name \in PropertyNames :
          (/\ removeProperty(path, "DAV:", name)
           /\ PropertyRows(webdav_properties, path, "DAV:", name) = {})
          => /\ view'.status = "ok"
             /\ UNCHANGED <<Tables, webdav_locks, webdav_properties>>
    ]_vars

\* a property of a key no row carries was removed while another key has a row
C24_Witness ==
  /\ view.op = "removeProperty"
  /\ view.status = "ok"
  /\ webdav_properties # {}
  /\ \A q \in webdav_properties : q.id = 3
  /\ nextUuid = 4
  /\ \A q \in webdav_properties : <<q.resource_path, q.namespace, q.name>> # view.key
\* the sync tokens there are: those of the change rows and of the calendars
AllTokens(changes, cals) ==
  {r.sync_token : r \in changes} \cup {cals[c].sync_token : c \in DOMAIN cals}

\* C25: a step that writes an object of calendar A (its rows change) leaves the
\* sync_token and the change rows of every other calendar B as they were, and
\* getChangesSince(B, T) answers, for every token T, with rows of B only and
\* with the same rows before and after.
C25_StreamsIndependent ==
  [][\A a \in DOMAIN calendars, b \in DOMAIN calendars :
       (/\ a # b
        /\ ObjectsIn(calendar_objects', a) # ObjectsIn(calendar_objects, a))
       => /\ b \in DOMAIN calendars'
          /\ calendars'[b].sync_token = calendars[b].sync_token
          /\ ChangesOf(sync_changes', b) = ChangesOf(sync_changes, b)
          /\ \A tok \in AllTokens(sync_changes', calendars') :
                /\ ChangesSince(sync_changes', b, tok) = ChangesSince(sync_changes, b, tok)
                /\ \A k \in 1..Len(ChangesSince(sync_changes', b, tok)) :
                      ChangesSince(sync_changes', b, tok)[k].calendar_id = b
    ]_vars

\* two calendars with change rows each, the later mutation in the other one
\* than the earlier
C25_Witness ==
  /\ Len(mutations) >= 2
  /\ mutations[Len(mutations)].calendar_id # mutations[1].calendar_id
  /\ mutations[Len(mutations)].change_type \in {"create", "update"}
  /\ mutations[1].change_type \in {"create", "update"}
  /\ ChangesOf(sync_changes, mutations[1].calendar_id) # {}
  /\ ChangesOf(sync_changes, mutations[Len(mutations)].calendar_id) # {}
  /\ getChangesSince(mutations[1].calendar_id, mutations[1].sync_token) = <<>>
(***************************************************************************)
(* The object query                                                        *)
(***************************************************************************)
\* a query with no time range (timeRange: undefined)
NoRange == [start |-> NoTime, end |-> NoTime]

\* a mutant of the time condition: closed at both ends
Overlaps_closed(row, timeRange) ==
  /\ row.dtstart # NoTime
  /\ row.dtend # NoTime
  /\ row.dtstart <= timeRange.end
  /\ row.dtend >= timeRange.start

\* the condition (dtstart < $end AND dtend > $start); a NULL dtstart or dtend
\* makes it NULL, and the row is not selected
Overlaps(row, timeRange) ==
  /\ row.dtstart # NoTime
  /\ row.dtend # NoTime
  /\ row.dtstart < timeRange.end
  /\ row.dtend > timeRange.start

\* ORDER BY dtstart ASC: the ids in an order in which no row stands before one
\* of a smaller dtstart, the NULLs last; rows of one dtstart come in any order
OrderByDtstart(ids) ==
  {seq \in [1..Cardinality(ids) -> ids] :
     /\ \A i, j \in 1..Cardinality(ids) : i # j => seq[i] # seq[j]
     /\ \A i, j \in 1..Cardinality(ids) :
          i < j => \/ calendar_objects[seq[j]].dtstart = NoTime
                   \/ /\ calendar_objects[seq[i]].dtstart # NoTime
                      /\ calendar_objects[seq[i]].dtstart <= calendar_objects[seq[j]].dtstart}

\* CalDAVController.queryCalendarObjects over CalDAVService.queryCalendarObjects:
\* the time range is used when start and end are both given, the component
\* type when it is given; the ids of the rows, in the order of the result
queryCalendarObjects(calendarId, userId, componentType, start, end) ==
  LET timeRange == IF start # NoTime /\ end # NoTime
                   THEN [start |-> start, end |-> end] ELSE NoRange
      key == [calendarId |-> calendarId, componentType |-> componentType,
              timeRange |-> timeRange]
      ids == {o \in DOMAIN calendar_objects :
                /\ calendar_objects[o].calendar_id = calendarId
                /\ componentType # "" => calendar_objects[o].component_type = componentType
                /\ timeRange # NoRange => Overlaps(calendar_objects[o], timeRange)}
  IN IF ~getCalendarOk(calendarId, userId)
     THEN Read("query", key, userId, "500", <<>>)
     ELSE \E seq \in OrderByDtstart(ids) : Read("query", key, userId, "ok", seq)

\* The object query: one writer of events with and without times, and queries
\* by anyone, with and without a component type and a time window.
WindowTimes == {1, 2, 3}

QueryDocs ==
  {[hasEvent |-> TRUE, uid |-> NoUid, hasSequence |-> FALSE, sequence |-> 0,
    status |-> NoStatus, start |-> t[1], end |-> t[2]] :
      t \in {<<1, 2>>, <<2, 3>>, <<NoTime, NoTime>>}}

NextQuery ==
  \/ Begin(SeqWriter)
  \/ \E cal \in DOMAIN calendars, d \in QueryDocs :
       CreateObject(SeqWriter, calendars[cal].user_id, cal, d)
  \/ \E cal \in DOMAIN calendars, user \in Users, componentType \in {"", "VEVENT", "VTODO"} :
       \E start, end \in WindowTimes \cup {NoTime} :
          queryCalendarObjects(cal, user, componentType, start, end)

SpecQuery == Init /\ [][NextQuery]_vars

\* the ids of a result
Range(seq) == {seq[i] : i \in 1..Len(seq)}

\* C26: every query that is answered with a time window [start, end) is
\* answered with exactly the objects of the calendar (of the component type, if
\* one was given) that have a start before the window's end and an end after
\* the window's start, each once, ordered by start ascending.  Without a
\* window, the objects that have no start come last.
C26_WindowHalfOpen ==
  [][(view' # view /\ view'.op = "query" /\ view'.status = "ok")
       => LET rows == view'.rows
              query == view'.key
              obj(i) == calendar_objects[rows[i]]
          IN /\ \A i, j \in 1..Len(rows) : i # j => rows[i] # rows[j]
             /\ query.timeRange # NoRange
                => Range(rows) =
                     {o \in DOMAIN calendar_objects :
                        /\ calendar_objects[o].calendar_id = query.calendarId
                        /\ query.componentType # ""
                           => calendar_objects[o].component_type = query.componentType
                        /\ calendar_objects[o].dtstart # NoTime
                        /\ calendar_objects[o].dtend # NoTime
                        /\ calendar_objects[o].dtstart < query.timeRange.end
                        /\ calendar_objects[o].dtend > query.timeRange.start}
             /\ \A i, j \in 1..Len(rows) :
                   i < j => /\ obj(i).dtstart = NoTime => obj(j).dtstart = NoTime
                            /\ obj(j).dtstart # NoTime => obj(i).dtstart <= obj(j).dtstart
    ]_vars

\* the window [2, 3) was asked of a calendar that holds an event ending at 2
\* and an event starting at 2, and the answer is the second alone
C26_Witness ==
  /\ view.op = "query"
  /\ view.status = "ok"
  /\ view.key.timeRange = [start |-> 2, end |-> 3]
  /\ Len(view.rows) = 1
  /\ calendar_objects[view.rows[1]].dtstart = 2
  /\ \E o \in DOMAIN calendar_objects :
        calendar_objects[o].dtend = 2 /\ calendar_objects[o].calendar_id = view.key.calendarId
(***************************************************************************)
(* The WebDAV file system over the object store                            *)
(***************************************************************************)
\* the query of CalDAVService.getCalendarObject over the table `objs`: the ids
\* of the rows WHERE calendar_id = $1 AND id = $2
getCalendarObject(objs, calendarId, objectId) ==
  {o \in DOMAIN objs : o = objectId /\ objs[o].calendar_id = calendarId}

\* CalDAVFileSystem._exists on /<calendarId>/<objectId>.ics: Forbidden without
\* a user; getCalendarObject throws for a calendar that is not the user's
_exists(calendarId, objectId, user) ==
  Read("_exists", Path(calendarId, objectId), user,
       IF user = NoUser THEN "Forbidden"
       ELSE IF ~getCalendarOk(calendarId, user) THEN "InternalServerError"
       ELSE IF getCalendarObject(calendar_objects, calendarId, objectId) # {} THEN "ok"
       ELSE "ResourceNotFound",
       {})

\* CalDAVFileSystem._readFile on /<calendarId>/<objectId>.ics: the row's
\* icalendarData in a Buffer; Buffer.from(undefined) throws
_readFile(calendarId, objectId, user) ==
  LET found == getCalendarObject(calendar_objects, calendarId, objectId)
      data == {Prop(calendar_objects[o], "icalendarData") : o \in found}
  IN IF user = NoUser THEN Read("_readFile", Path(calendarId, objectId), user, "Forbidden", {})
     ELSE IF ~getCalendarOk(calendarId, user) \/ "undefined" \in data
     THEN Read("_readFile", Path(calendarId, objectId), user, "InternalServerError", {})
     ELSE IF found = {}
     THEN Read("_readFile", Path(calendarId, objectId), user, "ResourceNotFound", {})
     ELSE Read("_readFile", Path(calendarId, objectId), user, "ok", data)

\* CalDAVFileSystem._writeFile on /<calendarId>/<objectId>.ics by a user:
\* updateCalendarObject when getCalendarObject finds the object, else
\* createCalendarObject(calendarId, user.id, icalendarData), to which the
\* objectId of the path is not passed.  (The lookup and the write are taken
\* together here: one writer.)
_writeFile(w, user, calendarId, objectId, d) ==
  IF getCalendarObject(calendar_objects, calendarId, objectId) # {}
  THEN UpdateObject(w, user, calendarId, objectId, d, 0)
  ELSE CreateObject(w, user, calendarId, d)

\* The file system: one client writing, probing and reading object paths.
FsDocs == {d \in Docs : ~d.hasSequence}

NextFs ==
  \/ Begin(SeqWriter)
  \/ \E user \in Users, cal \in DOMAIN calendars, obj \in ObjIds, d \in FsDocs :
       _writeFile(SeqWriter, user, cal, obj, d)
  \/ \E user \in Users \cup {NoUser}, cal \in DOMAIN calendars, obj \in ObjIds :
       _exists(cal, obj, user)
  \/ \E user \in Users \cup {NoUser}, cal \in DOMAIN calendars, obj \in ObjIds :
       _readFile(cal, obj, user)

SpecFs == Init /\ [][NextFs]_vars

\* C29: after a _writeFile of the owner that succeeds on the path of an object
\* that did not exist, the object of that path exists and carries the written
\* data (so that _exists and _readFile on the path find it, and a second
\* _writeFile updates it).
C29_ReadYourWrites ==
  [][\A cal \in DOMAIN calendars, obj \in ObjIds, d \in FsDocs :
       (/\ getCalendarObject(calendar_objects, cal, obj) = {}
        /\ _writeFile(SeqWriter, calendars[cal].user_id, cal, obj, d)
        /\ last'.status = "ok")
       => /\ getCalendarObject(calendar_objects', cal, obj) # {}
          /\ calendar_objects'[obj].icalendar_data = d
    ]_vars
====
